---- MODULE Spec2Model ----
(***************************************************************************)
(* Model of the max_rects crate: the rectangle primitives (Bucket,         *)
(* PackingBox), the placement engine MaxRects::place and the metric        *)
(* calculate_packed_percentage.                                            *)
(*                                                                         *)
(* Rust vectors are sequences; indices are 1-based here and 0-based in the *)
(* source.  Option<i32> is a sequence of length 0 (None) or 1 (Some(v)).   *)
(***************************************************************************)
EXTENDS Integers, Sequences, FiniteSets, Bags, TLC

VARIABLES
    boxes0,     \* the `boxes` vector handed to MaxRects::new
    bins0,      \* the `bins` vector handed to MaxRects::new
    boxes,      \* self.boxes
    bins,       \* self.bins
    placed,     \* the local `placed` of place(), returned first
    pc,         \* "loop": at the while test; "done": place() has returned
    iters,      \* number of executions of the while body so far
    last,       \* locals of the last body execution: search_result, box_item,
                \* bin_item, new_buckets, filtered_bins
    run,        \* which place() call of the session this is
    pctIn,      \* arguments of calculate_packed_percentage
    pctOut,     \* its result, None before the call
    ovIn,       \* two rectangles handed to the overlap functions
    ovOut       \* the results of the overlap calls made on them

vars == <<boxes0, bins0, boxes, bins, placed, pc, iters, last, run, pctIn, pctOut,
          ovIn, ovOut>>

----------------------------------------------------------------------------
(* Bounds of the model                                                      *)

MaxItems == 4       \* longest item list
MaxItemDim == 2     \* largest item width / height
MaxBinDim == 4      \* largest container width / height
MaxBins == 2        \* most containers of one run
MaxRuns == 2        \* place() calls in one session
MaxPctLen == 2      \* longest argument list of calculate_packed_percentage
MaxPctDim == 2      \* largest width / height in its arguments
MaxOvDim == 2       \* largest width / height handed to the overlap functions
MaxOvPos == 2       \* largest origin coordinate handed to them

----------------------------------------------------------------------------
(* Option<T>                                                                *)

None == <<>>

Some(v) == <<v>>

unwrap(o) == o[1]

Min(a, b) == IF a <= b THEN a ELSE b

\* mutant: remove() also drops the element after position i
RemoveTwo(s, i) == SubSeq(s, 1, i - 1) \o SubSeq(s, i + 2, Len(s))

\* mutant: remove() drops nothing
RemoveNothing(s, i) == s

\* Vec::remove(idx): the sequence without its element at position i
Remove(s, i) == SubSeq(s, 1, i - 1) \o SubSeq(s, i + 1, Len(s))

----------------------------------------------------------------------------
(* bucket.rs                                                                *)

Bucket(w, h, ox, oy, id) ==
    [width |-> w, height |-> h, originx |-> ox, originy |-> oy, bucketid |-> id]

\* (left, right, top, bottom)
BucketCoords(b) ==
    <<b.originx, b.originx + b.width, b.originy, b.originy + b.height>>

\* [(x1, y1), (x2, y1), (x1, y2), (x2, y2)]
Corners(c) == << <<c[1], c[3]>>, <<c[2], c[3]>>, <<c[1], c[4]>>, <<c[2], c[4]>> >>

BucketCorners(b) == Corners(BucketCoords(b))

\* mutant: rectangles that touch along a vertical edge count as overlapping
CornersOverlapTouching(sc, oc) ==
    ~(\/ sc[2][1] < oc[3][1]
      \/ sc[3][1] >= oc[2][1]
      \/ sc[2][2] >= oc[3][2]
      \/ sc[3][2] <= oc[2][2])

\* the test both overlap functions apply to the two corner arrays
CornersOverlap(sc, oc) ==
    ~(\/ sc[2][1] <= oc[3][1]
      \/ sc[3][1] >= oc[2][1]
      \/ sc[2][2] >= oc[3][2]
      \/ sc[3][2] <= oc[2][2])

BucketOverlap(a, b) ==
    IF a.bucketid # b.bucketid
    THEN FALSE
    ELSE CornersOverlap(BucketCorners(a), BucketCorners(b))

BucketContains(a, b) ==
    IF a.bucketid # b.bucketid
    THEN FALSE
    ELSE LET sc == BucketCorners(a)
             oc == BucketCorners(b)
         IN  /\ sc[1][1] <= oc[1][1]
             /\ oc[4][1] <= sc[4][1]
             /\ sc[1][2] <= oc[1][2]
             /\ oc[4][2] <= sc[4][2]

Area(b) == b.width * b.height

----------------------------------------------------------------------------
(* packing_box.rs                                                           *)

PackingBox(w, h) ==
    [width |-> w, height |-> h, originx |-> None, originy |-> None, bucketid |-> None]

\* PackingBox::place
BoxPlace(p, ox, oy, id) ==
    [p EXCEPT !.originx = Some(ox), !.originy = Some(oy), !.bucketid = Some(id)]

BoxCoords(p) ==
    <<unwrap(p.originx), unwrap(p.originx) + p.width,
      unwrap(p.originy), unwrap(p.originy) + p.height>>

BoxCorners(p) == Corners(BoxCoords(p))

\* PackingBox::overlap(&self, other: &Bucket)
BoxOverlap(p, b) ==
    IF p.bucketid # Some(b.bucketid)
    THEN FALSE
    ELSE CornersOverlap(BoxCorners(p), BucketCorners(b))

----------------------------------------------------------------------------
(* max_rects.rs: the steps of one execution of the while body               *)

\* mutant: one side fitting is enough
FitsEither(box_item, rect) ==
    box_item.width <= rect.width \/ box_item.height <= rect.height

\* mutant: an item as wide or as high as the region does not fit
FitsStrict(box_item, rect) ==
    box_item.width < rect.width /\ box_item.height < rect.height

Fits(box_item, rect) ==
    box_item.width <= rect.width /\ box_item.height <= rect.height

\* mutant: the score looks at the leftover width only
DiffWidthOnly(box_item, rect) == rect.width - box_item.width

Diff(box_item, rect) ==
    Min(rect.width - box_item.width, rect.height - box_item.height)

\* the inner filter_map(...).min_by(...) over self.bins for one box: the
\* sequential min_by keeps the first of several equal minima
BestBin(bs, bn, i) ==
    LET cand == {j \in 1..Len(bn) : Fits(bs[i], bn[j])}
        d == [j \in cand |-> Diff(bs[i], bn[j])]
    IN  IF cand = {}
        THEN None
        ELSE LET j == CHOOSE j \in cand :
                        \A k \in cand : d[j] < d[k] \/ (d[j] = d[k] /\ j <= k)
             IN  Some(<<d[j], i, j>>)

\* mutant: of several equal minima the outer reduction keeps the last
SearchKeepLast(bs, bn) ==
    LET best == [i \in 1..Len(bs) |-> BestBin(bs, bn, i)]
        cand == {i \in 1..Len(bs) : best[i] # None}
    IN  IF cand = {}
        THEN None
        ELSE LET d == [i \in cand |-> unwrap(best[i])[1]]
                 i == CHOOSE i \in cand :
                        \A k \in cand : d[i] < d[k] \/ (d[i] = d[k] /\ i >= k)
             IN  best[i]

\* the outer par_iter().filter_map(...).min_by(...): rayon reduces the
\* per-box results pairwise in index order with `Greater => b, _ => a`, so
\* the first of several equal minima is kept here too
Search(bs, bn) ==
    LET best == [i \in 1..Len(bs) |-> BestBin(bs, bn, i)]
        cand == {i \in 1..Len(bs) : best[i] # None}
    IN  IF cand = {}
        THEN None
        ELSE LET d == [i \in cand |-> unwrap(best[i])[1]]
                 i == CHOOSE i \in cand :
                        \A k \in cand : d[i] < d[k] \/ (d[i] = d[k] /\ i <= k)
             IN  best[i]

\* mutant: the side leftover keeps the width of the region
AdjacentFullWidth(bin_item, box_item) ==
    Bucket(bin_item.width, bin_item.height,
           bin_item.originx + box_item.width, bin_item.originy, bin_item.bucketid)

Adjacent(bin_item, box_item) ==
    Bucket(bin_item.width - box_item.width, bin_item.height,
           bin_item.originx + box_item.width, bin_item.originy, bin_item.bucketid)

Above(bin_item, box_item) ==
    Bucket(bin_item.width, bin_item.height - box_item.height,
           bin_item.originx, bin_item.originy, bin_item.bucketid)

\* box_item.place(...) of the body
PlaceInto(box_item, bin_item) ==
    BoxPlace(box_item, bin_item.originx,
             bin_item.height - box_item.height + bin_item.originy,
             bin_item.bucketid)

\* mutant: a bucket without area is kept too
PositiveAreaOrNone(s) == SelectSeq(s, LAMBDA b : Area(b) >= 0)

\* the buckets of a sequence with a positive area, in order
PositiveArea(s) == SelectSeq(s, LAMBDA b : Area(b) > 0)

\* the two pushes guarded by area() > 0
SplitOff(bn, bin_item, box_item) ==
    bn \o PositiveArea(<<Adjacent(bin_item, box_item), Above(bin_item, box_item)>>)

\* mutant: the left piece reaches to the right edge of the box
PiecesLeftWide(p, rect) ==
    LET pc4 == BoxCoords(p)
        rc4 == BucketCoords(rect)
    IN  << Bucket(pc4[2] - rect.originx, rect.height,
                  rect.originx, rect.originy, rect.bucketid),
           Bucket(rect.width, unwrap(p.originy) - rect.originy,
                  rect.originx, rect.originy, rect.bucketid),
           Bucket(rc4[2] - pc4[2], rect.height,
                  pc4[2], rect.originy, rect.bucketid),
           Bucket(rect.width, rc4[4] - pc4[4],
                  rect.originx, pc4[4], rect.bucketid) >>

\* [left, above, right, below] of a bucket that overlaps the placed box
Pieces(p, rect) ==
    LET pc4 == BoxCoords(p)
        rc4 == BucketCoords(rect)
    IN  << Bucket(unwrap(p.originx) - rect.originx, rect.height,
                  rect.originx, rect.originy, rect.bucketid),
           Bucket(rect.width, unwrap(p.originy) - rect.originy,
                  rect.originx, rect.originy, rect.bucketid),
           Bucket(rc4[2] - pc4[2], rect.height,
                  pc4[2], rect.originy, rect.bucketid),
           Bucket(rect.width, rc4[4] - pc4[4],
                  rect.originx, pc4[4], rect.bucketid) >>

RECURSIVE NewBuckets(_, _)
\* new_buckets: the kept pieces of every overlapping bucket, in bucket order
NewBuckets(p, bn) ==
    IF bn = <<>>
    THEN <<>>
    ELSE (IF BoxOverlap(p, Head(bn)) THEN PositiveArea(Pieces(p, Head(bn))) ELSE <<>>)
         \o NewBuckets(p, Tail(bn))

\* mutant: the overlap scan is skipped
ResolveNothing(p, bn) == bn

\* mutant: overlapping buckets are dropped and their pieces forgotten
ResolveDropOnly(p, bn) == SelectSeq(bn, LAMBDA b : ~BoxOverlap(p, b))

\* the overlap scan, extend and filter: overlapping buckets are dropped,
\* their pieces are appended after the buckets that stay
ResolveOverlaps(p, bn) ==
    SelectSeq(bn, LAMBDA b : ~BoxOverlap(p, b)) \o NewBuckets(p, bn)

\* overlaps[j] of the second scan
Contained(bn, j) == \E i \in 1..Len(bn) : i # j /\ BucketContains(bn[i], bn[j])

RECURSIVE KeepFrom(_, _)
KeepFrom(bn, j) ==
    IF j > Len(bn)
    THEN <<>>
    ELSE (IF Contained(bn, j) THEN <<>> ELSE <<bn[j]>>) \o KeepFrom(bn, j + 1)

\* mutant: the containment scan is skipped
PruneNothing(bn) == bn

\* the containment scan and the filter on its flags
Prune(bn) == KeepFrom(bn, 1)

----------------------------------------------------------------------------
(* f32: a value is sign * mant * 2^exp with mant = 0 (zero) or             *)
(* 2^23 <= mant < 2^24; results are rounded to nearest, ties to even       *)

MantBits == 24

RECURSIVE Pow2(_)
Pow2(n) == IF n = 0 THEN 1 ELSE 2 * Pow2(n - 1)

Abs(n) == IF n < 0 THEN 0 - n ELSE n

Sign(n) == IF n < 0 THEN 0 - 1 ELSE IF n = 0 THEN 0 ELSE 1

F32Zero == [sign |-> 0, mant |-> 0, exp |-> 0]

\* n / 2^s rounded to nearest, ties to even; sticky: the exact value lies
\* above n by less than one unit
RoundShift(n, s, sticky) ==
    IF s = 0
    THEN n
    ELSE LET q == n \div Pow2(s)
             rem == n % Pow2(s)
             half == Pow2(s - 1)
         IN  IF rem > half \/ (rem = half /\ sticky) THEN q + 1
             ELSE IF rem = half THEN q + (q % 2)
             ELSE q

\* the f32 nearest to sg * n * 2^e (n > 0; sticky as in RoundShift)
Normalize(sg, n, e, sticky) ==
    IF n < Pow2(MantBits - 1)
    THEN LET k == CHOOSE k \in 1..(MantBits - 1) :
                    /\ n * Pow2(k) >= Pow2(MantBits - 1)
                    /\ n * Pow2(k - 1) < Pow2(MantBits - 1)
         IN  [sign |-> sg, mant |-> n * Pow2(k), exp |-> e - k]
    ELSE LET s == CHOOSE s \in 0..8 :
                    /\ n \div Pow2(s) < Pow2(MantBits)
                    /\ s > 0 => n \div Pow2(s - 1) >= Pow2(MantBits)
             q == RoundShift(n, s, sticky)
         IN  IF q = Pow2(MantBits)
             THEN [sign |-> sg, mant |-> Pow2(MantBits - 1), exp |-> e + s + 1]
             ELSE [sign |-> sg, mant |-> q, exp |-> e + s]

\* `n as f32`
I32ToF32(n) == IF n = 0 THEN F32Zero ELSE Normalize(Sign(n), Abs(n), 0, FALSE)

RECURSIVE DivBits(_, _, _, _)
\* n steps of binary long division: <<quotient bits, remainder>>
DivBits(r, d, n, q) ==
    IF n = 0
    THEN <<q, r>>
    ELSE IF r >= d
         THEN DivBits(2 * (r - d), d, n - 1, 2 * q + 1)
         ELSE DivBits(2 * r, d, n - 1, 2 * q)

\* x / y for y # 0: MantBits + 2 quotient bits and a sticky bit, rounded
F32Div(x, y) ==
    IF x.sign = 0
    THEN F32Zero
    ELSE LET qr == DivBits(x.mant, y.mant, MantBits + 2, 0)
         IN  Normalize(x.sign * y.sign, qr[1], x.exp - y.exp - (MantBits + 1), qr[2] # 0)

\* mutant: the factor 100 is left out
F32MulOne(x) == x

\* x * 100.0; 100 = 25 * 2^2
F32Mul100(x) ==
    IF x.sign = 0 THEN F32Zero ELSE Normalize(x.sign, x.mant * 25, x.exp + 2, FALSE)

----------------------------------------------------------------------------
(* lib.rs                                                                   *)

RECURSIVE SumAreas(_)
\* iter().map(|r| r.width * r.height).sum()
SumAreas(s) ==
    IF s = <<>> THEN 0 ELSE Head(s).width * Head(s).height + SumAreas(Tail(s))

calculate_packed_percentage(placed_boxes, bns) ==
    LET total_bin_area == SumAreas(bns)
        total_placed_box_area == SumAreas(placed_boxes)
    IN  IF total_bin_area = 0
        THEN F32Zero
        ELSE F32Mul100(F32Div(I32ToF32(total_placed_box_area), I32ToF32(total_bin_area)))

----------------------------------------------------------------------------
(* Inputs                                                                   *)

\* well-formed items: every positive size up to the bound
GoodItems == {PackingBox(w, h) : w \in 1..MaxItemDim, h \in 1..MaxItemDim}

\* the larger of them
TightItems ==
    {PackingBox(w, h) : w \in (MaxItemDim - 1)..MaxItemDim,
                        h \in (MaxItemDim - 1)..MaxItemDim}

\* malformed items (a side that is zero or negative) and a well-formed one
\* to go with them
AnyItems ==
    {PackingBox(0, 1), PackingBox(1, 0), PackingBox(0 - 1, 1), PackingBox(1, 0 - 1),
     PackingBox(1, 1)}

RECURSIVE SeqsUpTo(_, _)
SeqsUpTo(S, n) ==
    IF n = 0
    THEN {<<>>}
    ELSE LET shorter == SeqsUpTo(S, n - 1)
         IN  shorter \cup {Append(s, x) : s \in {t \in shorter : Len(t) = n - 1}, x \in S}

\* the longest lists hold the larger items only
LongLists == SeqsUpTo(TightItems, MaxItems)

WideLists == SeqsUpTo(GoodItems, MaxItems - 1)

AnyLists == SeqsUpTo(AnyItems, MaxItems - 1)

BinDims == (MaxBinDim - 2)..MaxBinDim

\* one initial region per container, ids 1 .. n: no container, one at the
\* origin, one away from the origin, or several
Containers ==
    {<<>>, <<Bucket(1, 1, 0, 0, 1)>>, <<Bucket(MaxBinDim - 1, MaxBinDim, 1, 2, 1)>>}
    \cup {<<Bucket(w, h, 0, 0, 1)>> : w \in BinDims, h \in BinDims}
    \cup {[k \in 1..n |-> IF k = 1 THEN Bucket(MaxBinDim - 1, MaxBinDim - 1, 0, 0, 1)
                                   ELSE Bucket(2, MaxBinDim - 1, 0, 0, k)] :
            n \in 2..MaxBins}

\* lists outside the engine's intended use: two regions of one container
\* (equal, nested, overlapping or side by side) and a region without area
SameIdRegions ==
    {Bucket(2, 2, 0, 0, 1), Bucket(1, 2, 0, 0, 1), Bucket(2, 2, 1, 0, 1),
     Bucket(2, 1, 0, 0, 1), Bucket(1, 2, 2, 0, 1)}

OddBins ==
    {<<a, b>> : a \in SameIdRegions, b \in SameIdRegions}
    \cup {<<Bucket(0, 1, 0, 0, 1)>>, <<Bucket(1, 0, 0, 0, 1)>>,
          <<Bucket(0 - 1, 1, 0, 0, 1)>>, <<Bucket(0 - 1, 0 - 1, 0, 0, 1)>>}

BinLists == Containers \cup OddBins

NoLast ==
    [search_result |-> None, box_item |-> None, bin_item |-> None,
     new_buckets |-> <<>>, filtered_bins |-> <<>>]

NoPct == [placed_boxes |-> <<>>, bins |-> <<>>]

NoOvIn == [a |-> Bucket(0, 0, 0, 0, 0), b |-> Bucket(0, 0, 0, 0, 0)]

NoOvOut == [buckets |-> None, item |-> None]

InitWith(items, regions) ==
    /\ boxes0 \in items
    /\ bins0 \in regions
    /\ boxes = boxes0
    /\ bins = bins0
    /\ placed = <<>>
    /\ pc = "loop"
    /\ iters = 0
    /\ last = NoLast
    /\ run = 1
    /\ pctIn = NoPct
    /\ pctOut = None
    /\ ovIn = NoOvIn
    /\ ovOut = NoOvOut

\* MaxRects::new(boxes, bins)
Init ==
    \/ InitWith(LongLists \cup AnyLists, BinLists)
    \/ InitWith(WideLists, Containers)

----------------------------------------------------------------------------
(* Actions                                                                  *)

\* a body execution whose search returns Some((_, box_idx, idx)); the
\* bound names are the locals of the body, in the order the body sets them
PlaceStep ==
    /\ pc = "loop"
    /\ \E search_result \in {Search(boxes, bins)} :
        /\ search_result # None
        /\ \E box_idx \in {unwrap(search_result)[2]}, idx \in {unwrap(search_result)[3]} :
           \E box_item \in {PlaceInto(boxes[box_idx], bins[idx])} :
           \E pushed \in {SplitOff(Remove(bins, idx), bins[idx], boxes[box_idx])} :
           \E new_buckets \in {NewBuckets(box_item, pushed)},
              filtered_bins \in {ResolveOverlaps(box_item, pushed)} :
                /\ boxes' = Remove(boxes, box_idx)
                /\ placed' = Append(placed, box_item)
                /\ bins' = Prune(filtered_bins)
                /\ last' = [search_result |-> search_result,
                            box_item |-> Some(boxes[box_idx]),
                            bin_item |-> Some(bins[idx]),
                            new_buckets |-> new_buckets,
                            filtered_bins |-> filtered_bins]
    /\ iters' = iters + 1
    /\ UNCHANGED <<boxes0, bins0, pc, run, pctIn, pctOut, ovIn, ovOut>>

\* mutant: the containment scan also runs when nothing was placed
ExitStepPruning ==
    /\ pc = "loop"
    /\ Search(boxes, bins) = None
    /\ pc' = "done"
    /\ iters' = iters + 1
    /\ last' = NoLast
    /\ bins' = Prune(bins)
    /\ UNCHANGED <<boxes0, bins0, boxes, placed, run, pctIn, pctOut, ovIn, ovOut>>

\* a body execution whose search returns None: nochange stays true, the
\* loop ends and place() returns (placed, self.boxes, self.bins)
ExitStep ==
    /\ pc = "loop"
    /\ Search(boxes, bins) = None
    /\ pc' = "done"
    /\ iters' = iters + 1
    /\ last' = NoLast
    /\ UNCHANGED <<boxes0, bins0, boxes, bins, placed, run, pctIn, pctOut, ovIn, ovOut>>

\* MaxRects::new(vec![], leftover).place(): a further run with no items on
\* the regions the previous run returned
Rerun ==
    /\ pc = "done"
    /\ run < MaxRuns
    /\ run' = run + 1
    /\ boxes0' = <<>>
    /\ bins0' = bins
    /\ boxes' = <<>>
    /\ bins' = bins
    /\ placed' = <<>>
    /\ pc' = "loop"
    /\ iters' = 0
    /\ last' = NoLast
    /\ UNCHANGED <<pctIn, pctOut, ovIn, ovOut>>

Next == PlaceStep \/ ExitStep \/ Rerun

Spec == Init /\ [][Next]_vars

----------------------------------------------------------------------------
(* calculate_packed_percentage on its own                                   *)

PctDims == 0..MaxPctDim

\* items of every size, also without area, and one with a negative side
PctBoxes ==
    SeqsUpTo({PackingBox(w, h) : w \in PctDims, h \in PctDims}
             \cup {PackingBox(0 - 1, 1)}, MaxPctLen)

\* the containers of main(): n buckets of one size; one with a negative
\* side or two; and two whose areas cancel
PctBins ==
    {[k \in 1..n |-> Bucket(w, h, 0, 0, k - 1)] :
        n \in 0..MaxPctLen, w \in PctDims, h \in PctDims}
    \cup {<<Bucket(0 - 1, 1, 0, 0, 0)>>, <<Bucket(1, 0 - 1, 0, 0, 0)>>,
          <<Bucket(0 - 1, 0 - 1, 0, 0, 0)>>,
          <<Bucket(1, 1, 0, 0, 0), Bucket(0 - 1, 1, 0, 0, 1)>>}

InitPct ==
    /\ boxes0 = <<>>
    /\ bins0 = <<>>
    /\ boxes = <<>>
    /\ bins = <<>>
    /\ placed = <<>>
    /\ pc = "metrics"
    /\ iters = 0
    /\ last = NoLast
    /\ run = 1
    /\ pctIn \in [placed_boxes : PctBoxes, bins : PctBins]
    /\ pctOut = None
    /\ ovIn = NoOvIn
    /\ ovOut = NoOvOut

\* the call calculate_packed_percentage(&placed_boxes, &bins)
CalcPercentage ==
    /\ pc = "metrics"
    /\ pctOut = None
    /\ pctOut' = Some(calculate_packed_percentage(pctIn.placed_boxes, pctIn.bins))
    /\ UNCHANGED <<boxes0, bins0, boxes, bins, placed, pc, iters, last, run, pctIn,
                   ovIn, ovOut>>

NextPct == CalcPercentage

SpecPct == InitPct /\ [][NextPct]_vars

----------------------------------------------------------------------------
(* Bucket::overlap and PackingBox::overlap on their own                     *)

\* rectangles of every size from 0 and every origin up to the bounds, and
\* some with a negative side
OvBuckets(ids) ==
    {Bucket(w, h, ox, oy, id) :
        w \in 0..MaxOvDim, h \in 0..MaxOvDim,
        ox \in 0..MaxOvPos, oy \in 0..MaxOvPos, id \in ids}
    \cup {Bucket(0 - 1, 1, 1, 1, 1), Bucket(1, 0 - 1, 1, 1, 1), Bucket(0 - 1, 0 - 1, 2, 2, 1)}

\* the item of the size of bucket a, placed where a is
AsItem(a) ==
    BoxPlace(PackingBox(a.width, a.height), a.originx, a.originy, a.bucketid)

InitOv ==
    /\ boxes0 = <<>>
    /\ bins0 = <<>>
    /\ boxes = <<>>
    /\ bins = <<>>
    /\ placed = <<>>
    /\ pc = "overlap"
    /\ iters = 0
    /\ last = NoLast
    /\ run = 1
    /\ pctIn = NoPct
    /\ pctOut = None
    /\ ovIn \in [a : OvBuckets({1}), b : OvBuckets({1, 2})]
    /\ ovOut = NoOvOut

\* the calls a.overlap(&b) and b.overlap(&a)
CallBucketOverlap ==
    /\ pc = "overlap"
    /\ ovOut.buckets = None
    /\ ovOut' = [ovOut EXCEPT !.buckets = Some(<<BucketOverlap(ovIn.a, ovIn.b),
                                                 BucketOverlap(ovIn.b, ovIn.a)>>)]
    /\ UNCHANGED <<boxes0, bins0, boxes, bins, placed, pc, iters, last, run, pctIn,
                   pctOut, ovIn>>

\* the call item.overlap(&b) for the item placed where a is
CallBoxOverlap ==
    /\ pc = "overlap"
    /\ ovOut.item = None
    /\ ovOut' = [ovOut EXCEPT !.item = Some(BoxOverlap(AsItem(ovIn.a), ovIn.b))]
    /\ UNCHANGED <<boxes0, bins0, boxes, bins, placed, pc, iters, last, run, pctIn,
                   pctOut, ovIn>>

NextOv == CallBucketOverlap \/ CallBoxOverlap

SpecOv == InitOv /\ [][NextOv]_vars

----------------------------------------------------------------------------
(* Runs of place() under fairness                                           *)

\* inputs of the runs followed to their end: well-formed and malformed
\* items, no, one or two containers
FairItems == {PackingBox(1, 1), PackingBox(2, 1), PackingBox(1, 2), PackingBox(0, 1)}

FairBinLists ==
    {<<>>, <<Bucket(3, 3, 0, 0, 1)>>, <<Bucket(2, 2, 1, 2, 1)>>,
     <<Bucket(2, 3, 0, 0, 1), Bucket(2, 2, 0, 0, 2)>>}

InitFair == InitWith(SeqsUpTo(FairItems, MaxItems), FairBinLists)

\* place() is sequential code without a blocking call: its loop always
\* takes its next step
FairSpec == InitFair /\ [][Next]_vars /\ WF_vars(PlaceStep \/ ExitStep)

----------------------------------------------------------------------------
(* Preconditions the claims name                                            *)

PositiveItems == \A i \in DOMAIN boxes0 : boxes0[i].width > 0 /\ boxes0[i].height > 0

PositiveBins == \A j \in DOMAIN bins0 : bins0[j].width > 0 /\ bins0[j].height > 0

OnePerContainer ==
    /\ PositiveBins
    /\ \A j, k \in DOMAIN bins0 : j # k => bins0[j].bucketid # bins0[k].bucketid

\* the multiset of the (width, height) pairs of a sequence of items
SizeBag(s) ==
    LET sz(i) == <<s[i].width, s[i].height>>
    IN  [x \in {sz(i) : i \in DOMAIN s} |-> Cardinality({i \in DOMAIN s : sz(i) = x})]

\* two placed items of one container share interior points on both axes
ItemsOverlap(a, b) ==
    /\ a.bucketid = b.bucketid
    /\ BoxCoords(a)[1] < BoxCoords(b)[2] /\ BoxCoords(b)[1] < BoxCoords(a)[2]
    /\ BoxCoords(a)[3] < BoxCoords(b)[4] /\ BoxCoords(b)[3] < BoxCoords(a)[4]

IsPlaced(p) == p.originx # None /\ p.originy # None /\ p.bucketid # None

IsUnplaced(p) == p.originx = None /\ p.originy = None /\ p.bucketid = None

----------------------------------------------------------------------------
(* Claims                                                                   *)

\* C1: when place() returns, the placed and the unplaced list together hold
\* exactly the original items: the lengths add up to the number of input
\* items and the sizes of the two lists together are, as a multiset, the
\* sizes of the input, so no item is lost, duplicated or resized.
C1_Conservation ==
    pc = "done" =>
        /\ Len(placed) + Len(boxes) = Len(boxes0)
        /\ SizeBag(placed \o boxes) = SizeBag(boxes0)
        /\ \A i \in DOMAIN placed : IsPlaced(placed[i])
        /\ \A i \in DOMAIN boxes : IsUnplaced(boxes[i])

C1_Witness ==
    /\ pc = "done"
    /\ run = 1
    /\ Len(placed) >= 2
    /\ Len(boxes) >= 1

\* C2: from one positive initial region per container id and positive
\* items, in every state of place() (after every iteration and at return)
\* no two placed items of the same container overlap.
C2_NoItemOverlap ==
    (OnePerContainer /\ PositiveItems) =>
        \A a, b \in DOMAIN placed : a # b => ~ItemsOverlap(placed[a], placed[b])

C2_Witness ==
    /\ OnePerContainer /\ PositiveItems
    /\ pc = "loop"
    /\ Len(placed) >= 4
    /\ \A a \in DOMAIN placed : placed[a].bucketid = placed[1].bucketid
    /\ last.new_buckets # <<>>

\* C3: from one positive initial region per container id and positive
\* items, after every completed iteration of place() and at return no free
\* region overlaps an item placed so far in the same container.
C3_FreeAvoidsPlaced ==
    (OnePerContainer /\ PositiveItems) =>
        \A j \in DOMAIN bins : \A a \in DOMAIN placed : ~BoxOverlap(placed[a], bins[j])

C3_Witness ==
    /\ OnePerContainer /\ PositiveItems
    /\ pc = "loop"
    /\ Len(placed) >= 2
    /\ last.new_buckets # <<>>
    /\ bins # <<>>

\* C4: from one positive initial region per container id and positive
\* items, after every completed iteration of place() and at return no free
\* region contains another free region of the list.
C4_NoContainedRegion ==
    (OnePerContainer /\ PositiveItems) =>
        \A j, k \in DOMAIN bins : j # k => ~BucketContains(bins[j], bins[k])

C4_Witness ==
    /\ OnePerContainer /\ PositiveItems
    /\ last.search_result # None
    /\ Len(bins) >= 2
    /\ Len(bins) < Len(last.filtered_bins)

\* C5: an item put into region R is recorded at x = R.originx,
\* y = R.originy + R.height - h, container R.bucketid; and a run with one
\* item w x h and one container W x H at (ox, oy), w < W and h < H, returns
\* exactly the two regions with spans (ox+w, ox+W, oy, oy+H) and
\* (ox, ox+W, oy, oy+H-h), in this order.
C5_PlacementAndLeftovers ==
    /\ last.search_result # None =>
            LET R == unwrap(last.bin_item)
                it == placed[Len(placed)]
            IN  /\ it.originx = Some(R.originx)
                /\ it.originy = Some(R.originy + R.height - it.height)
                /\ it.bucketid = Some(R.bucketid)
    /\ (/\ pc = "done"
        /\ Len(boxes0) = 1
        /\ Len(bins0) = 1
        /\ boxes0[1].width < bins0[1].width
        /\ boxes0[1].height < bins0[1].height) =>
            LET w == boxes0[1].width
                h == boxes0[1].height
                ox == bins0[1].originx
                oy == bins0[1].originy
                W == bins0[1].width
                H == bins0[1].height
            IN  /\ Len(placed) = 1
                /\ Len(bins) = 2
                /\ BucketCoords(bins[1]) = <<ox + w, ox + W, oy, oy + H>>
                /\ BucketCoords(bins[2]) = <<ox, ox + W, oy, oy + H - h>>

\* every item is wider or taller than every region
NoFit(bs, bn) ==
    \A i \in DOMAIN bs : \A j \in DOMAIN bn :
        bs[i].width > bn[j].width \/ bs[i].height > bn[j].height

\* C6: if every input item is wider or taller than every input region,
\* place() returns no placed item, the input items in their order and
\* without a placement record as unplaced, and the input regions unchanged.
C6_NoFitNoChange ==
    (pc = "done" /\ NoFit(boxes0, bins0)) =>
        /\ placed = <<>>
        /\ boxes = boxes0
        /\ \A i \in DOMAIN boxes : IsUnplaced(boxes[i])
        /\ bins = bins0

C6_Witness ==
    /\ pc = "done"
    /\ run = 1
    /\ NoFit(boxes0, bins0)
    /\ Len(boxes0) >= 2
    /\ Len(bins0) >= 2
    /\ iters = 1

\* C7: place() with no items returns no placed item, no unplaced item and
\* the free regions it was given, in their order; also when these are the
\* leftover regions of an earlier run.
C7_EmptyItemsIdentity ==
    (pc = "done" /\ boxes0 = <<>>) =>
        /\ placed = <<>>
        /\ boxes = <<>>
        /\ bins = bins0

C7_Witness ==
    /\ pc = "done"
    /\ run = 2
    /\ boxes0 = <<>>
    /\ Len(bins0) >= 3

\* C8: with free regions of positive size only, an item with a width or a
\* height that is zero or negative is never in the placed list.
C8_MalformedNeverPlaced ==
    PositiveBins =>
        \A a \in DOMAIN placed : placed[a].width > 0 /\ placed[a].height > 0

\* C9: place() terminates: a body execution whose search finds a pair
\* removes exactly one item from the unplaced list and stays in the loop,
\* the first body execution whose search finds none leaves the loop, the
\* body has run at most (number of input items + 1) times, and place()
\* returns.
C9_Terminates ==
    /\ [][pc = "loop" =>
            IF Search(boxes, bins) # None
            THEN Len(boxes') = Len(boxes) - 1 /\ pc' = "loop" /\ iters' = iters + 1
            ELSE pc' = "done" /\ iters' = iters + 1]_vars
    /\ [](iters <= Len(boxes0) + 1)
    /\ []<>(pc = "done")

C9_Witness ==
    /\ pc = "done"
    /\ run = 1
    /\ Len(boxes0) = MaxItems
    /\ Len(placed) = MaxItems
    /\ iters = Len(boxes0) + 1

RECURSIVE TotalArea(_)
\* the sum of width x height over a list of rectangles
TotalArea(s) ==
    IF Len(s) = 0
    THEN 0
    ELSE TotalArea(SubSeq(s, 1, Len(s) - 1)) + s[Len(s)].width * s[Len(s)].height

F32Hundred == [sign |-> 1, mant |-> 13107200, exp |-> 0 - 17]

\* r is 100 * a / b up to the rounding of the f32 division and of the f32
\* multiplication (two units in the last place of r)
IsPercentage(r, a, b) ==
    /\ r.sign = Sign(a) * Sign(b)
    /\ a # 0 =>
        /\ r.exp < 0
        /\ Abs(r.mant * Abs(b) - 100 * Abs(a) * Pow2(0 - r.exp)) <= 2 * Abs(b)

\* C10: calculate_packed_percentage returns 100 x (sum of item areas) /
\* (sum of container areas) as an f32, and 0 when the container areas sum
\* to 0; it is 0 for no items, 0 for no containers and exactly 100 when the
\* two sums are equal.
C10_Percentage ==
    pctOut # None =>
        LET r == unwrap(pctOut)
            a == TotalArea(pctIn.placed_boxes)
            b == TotalArea(pctIn.bins)
        IN  /\ b = 0 => r = F32Zero
            /\ pctIn.placed_boxes = <<>> => r = F32Zero
            /\ pctIn.bins = <<>> => r = F32Zero
            /\ b # 0 => IsPercentage(r, a, b)
            /\ (b # 0 /\ a = b) => r = F32Hundred

C10_Witness ==
    /\ pctOut = Some(F32Hundred)
    /\ Len(pctIn.placed_boxes) = 2
    /\ \A i \in DOMAIN pctIn.placed_boxes :
            pctIn.placed_boxes[i].width > 0 /\ pctIn.placed_boxes[i].height > 0
    /\ Len(pctIn.bins) = 1
    /\ TotalArea(pctIn.bins) > 1

Max(a, b) == IF a >= b THEN a ELSE b

\* the length of the intersection of the intervals from l1 to r1 and from
\* l2 to r2 (not positive: they do not intersect, or only in a point)
MeetLen(l1, r1, l2, r2) == Min(r1, r2) - Max(l1, l2)

\* same container, and the x-intervals and the y-intervals each intersect
\* in an interval of positive length
ShareInterior(a, b) ==
    /\ a.bucketid = b.bucketid
    /\ MeetLen(BucketCoords(a)[1], BucketCoords(a)[2],
               BucketCoords(b)[1], BucketCoords(b)[2]) > 0
    /\ MeetLen(BucketCoords(a)[3], BucketCoords(a)[4],
               BucketCoords(b)[3], BucketCoords(b)[4]) > 0

\* C11: Bucket::overlap(A, B) and PackingBox::overlap(item, region) are true
\* exactly when the two rectangles have the same container id and their
\* x-intervals and their y-intervals each intersect in an interval of
\* positive length (so not when they only touch, and not for different
\* ids), and Bucket::overlap gives the same answer with its arguments
\* exchanged.
C11_Overlap ==
    /\ ovOut.buckets # None =>
            /\ unwrap(ovOut.buckets)[1] = ShareInterior(ovIn.a, ovIn.b)
            /\ unwrap(ovOut.buckets)[2] = unwrap(ovOut.buckets)[1]
    /\ ovOut.item # None =>
            unwrap(ovOut.item) = ShareInterior(ovIn.a, ovIn.b)

PositiveRect(r) == r.width > 0 /\ r.height > 0

\* C11 as amended: for rectangles of positive width and height the two
\* overlap functions are true exactly when the rectangles have the same
\* container id and their x-intervals and y-intervals each intersect in an
\* interval of positive length; for all rectangles, different container ids
\* never overlap and Bucket::overlap is symmetric.
C11_OverlapPositive ==
    /\ ovOut.buckets # None =>
            /\ (PositiveRect(ovIn.a) /\ PositiveRect(ovIn.b)) =>
                    unwrap(ovOut.buckets)[1] = ShareInterior(ovIn.a, ovIn.b)
            /\ ovIn.a.bucketid # ovIn.b.bucketid => unwrap(ovOut.buckets)[1] = FALSE
            /\ unwrap(ovOut.buckets)[2] = unwrap(ovOut.buckets)[1]
    /\ ovOut.item # None =>
            /\ (PositiveRect(ovIn.a) /\ PositiveRect(ovIn.b)) =>
                    unwrap(ovOut.item) = ShareInterior(ovIn.a, ovIn.b)
            /\ ovIn.a.bucketid # ovIn.b.bucketid => unwrap(ovOut.item) = FALSE

\* both calls made on two rectangles of positive size that touch along a
\* vertical edge over a stretch of positive length
C11_Witness ==
    /\ ovOut.buckets = Some(<<FALSE, FALSE>>)
    /\ ovOut.item = Some(FALSE)
    /\ PositiveRect(ovIn.a) /\ PositiveRect(ovIn.b)
    /\ ovIn.a.bucketid = ovIn.b.bucketid
    /\ BucketCoords(ovIn.a)[2] = BucketCoords(ovIn.b)[1]
    /\ MeetLen(BucketCoords(ovIn.a)[3], BucketCoords(ovIn.a)[4],
               BucketCoords(ovIn.b)[3], BucketCoords(ovIn.b)[4]) > 0

\* the (item index, region index) pairs in which the item fits the region
FittingPairs(bs, bn) ==
    {q \in (DOMAIN bs) \X (DOMAIN bn) :
        bs[q[1]].width <= bn[q[2]].width /\ bs[q[1]].height <= bn[q[2]].height}

\* the smaller of the two leftover dimensions
Score(it, r) ==
    IF r.width - it.width < r.height - it.height
    THEN r.width - it.width
    ELSE r.height - it.height

\* C12: an iteration of place() places an item whenever some unplaced item
\* fits some free region; the (item, region) pair it chooses fits, and its
\* score min(region.width - item.width, region.height - item.height) is
\* minimal among the scores of all fitting pairs of that moment; with no
\* fitting pair nothing is placed.
C12_BestFit ==
    [][pc = "loop" =>
        IF FittingPairs(boxes, bins) = {}
        THEN placed' = placed /\ boxes' = boxes /\ last'.search_result = None
        ELSE \E q \in FittingPairs(boxes, bins) :
                /\ \A o \in FittingPairs(boxes, bins) :
                        Score(boxes[q[1]], bins[q[2]]) <= Score(boxes[o[1]], bins[o[2]])
                /\ last'.search_result = Some(<<Score(boxes[q[1]], bins[q[2]]), q[1], q[2]>>)
                /\ last'.box_item = Some(boxes[q[1]])
                /\ last'.bin_item = Some(bins[q[2]])
                /\ Len(placed') = Len(placed) + 1
                /\ placed'[Len(placed')].width = boxes[q[1]].width
                /\ placed'[Len(placed')].height = boxes[q[1]].height
                /\ placed'[Len(placed')].bucketid = Some(bins[q[2]].bucketid)
                /\ Len(boxes') = Len(boxes) - 1]_vars

\* an iteration has chosen a pair that is first neither in the item list
\* nor in the region list, in a run with items and regions of positive size
C12_Witness ==
    /\ PositiveItems /\ PositiveBins
    /\ last.search_result # None
    /\ unwrap(last.search_result)[2] > 1
    /\ unwrap(last.search_result)[3] > 1

\* the fitting pairs with the least score
BestPairs(bs, bn) ==
    {q \in FittingPairs(bs, bn) :
        \A o \in FittingPairs(bs, bn) :
            Score(bs[q[1]], bn[q[2]]) <= Score(bs[o[1]], bn[o[2]])}

\* of the best pairs the one with the lowest region index and, among those
\* with that region, the lowest item index
RegionFirst(bs, bn) ==
    CHOOSE q \in BestPairs(bs, bn) :
        \A o \in BestPairs(bs, bn) : q[2] < o[2] \/ (q[2] = o[2] /\ q[1] <= o[1])

\* of the best pairs the one with the lowest item index and, among those
\* with that item, the lowest region index
ItemFirst(bs, bn) ==
    CHOOSE q \in BestPairs(bs, bn) :
        \A o \in BestPairs(bs, bn) : q[1] < o[1] \/ (q[1] = o[1] /\ q[2] <= o[2])

\* the pair the search of the coming iteration is to choose from
ChosenPair(st) == <<unwrap(st.search_result)[2], unwrap(st.search_result)[3]>>

\* C13: when several fitting pairs share the least score in a search of
\* place(), the pair chosen is the one with the lowest region index and,
\* among the pairs with that region, the one with the lowest item index.
\* Stated for the runs of the intended use alone (one region of positive
\* size per container, items of positive size), where it fails already.
C13_TieRegionFirst ==
    [][(pc = "loop" /\ OnePerContainer /\ PositiveItems
            /\ FittingPairs(boxes, bins) # {}) =>
            /\ last'.search_result # None
            /\ ChosenPair(last') = RegionFirst(boxes, bins)]_vars

\* C13 as amended: when several fitting pairs share the least score in a
\* search of place(), the pair chosen is the one with the lowest item index
\* and, among the pairs with that item, the one with the lowest region
\* index.
C13_TieItemFirst ==
    [][(pc = "loop" /\ FittingPairs(boxes, bins) # {}) =>
            /\ last'.search_result # None
            /\ ChosenPair(last') = ItemFirst(boxes, bins)]_vars

\* the first iteration of a run has made its choice among best pairs of
\* which the one with the lowest region index is not the one with the lowest
\* item index, and has taken the latter
C13_Witness ==
    /\ run = 1
    /\ iters = 1
    /\ last.search_result # None
    /\ Cardinality(BestPairs(boxes0, bins0)) >= 2
    /\ RegionFirst(boxes0, bins0) # ItemFirst(boxes0, bins0)
    /\ ChosenPair(last) = ItemFirst(boxes0, bins0)
    /\ PositiveItems /\ OnePerContainer

\* region a of the same container contains region b and is another
\* rectangle
StrictlyContains(a, b) ==
    /\ a.bucketid = b.bucketid
    /\ BucketCoords(a)[1] <= BucketCoords(b)[1] /\ BucketCoords(b)[2] <= BucketCoords(a)[2]
    /\ BucketCoords(a)[3] <= BucketCoords(b)[3] /\ BucketCoords(b)[4] <= BucketCoords(a)[4]
    /\ BucketCoords(a) # BucketCoords(b)

\* the regions of a list that no region of the list strictly contains, in
\* their order
Maximal(bn) ==
    SelectSeq(bn, LAMBDA b : ~\E i \in DOMAIN bn : StrictlyContains(bn[i], b))

\* C14: the PRUNE step of an iteration of place() discards a region exactly
\* when another region of the same container strictly contains it (contains
\* it and is not the same rectangle); a region that nothing strictly
\* contains stays, also when an identical copy of it is in the list; this
\* for every list that reaches the step, also in runs whose initial list
\* holds a region twice or overlapping regions of one container.  Stated
\* for runs with items and initial regions of positive size alone, where
\* it fails already.
C14_PruneStrict ==
    (PositiveItems /\ PositiveBins /\ last.search_result # None) =>
        bins = Maximal(last.filtered_bins)

\* C15: when place() returns it is at a fixed point: no item of the
\* returned unplaced list fits (width <= region width and height <= region
\* height) any region of the returned list of free regions.
C15_FixedPoint ==
    pc = "done" =>
        \A i \in DOMAIN boxes : \A j \in DOMAIN bins :
            ~(boxes[i].width <= bins[j].width /\ boxes[i].height <= bins[j].height)

\* a run that placed items has returned with items left over and with free
\* regions left over, one of them at least as large in area as a leftover
\* item
C15_Witness ==
    /\ pc = "done"
    /\ run = 1
    /\ Len(placed) >= 2
    /\ boxes # <<>>
    /\ \E i \in DOMAIN boxes : \E j \in DOMAIN bins :
            /\ boxes[i].width > 0 /\ boxes[i].height > 0
            /\ Area(bins[j]) >= boxes[i].width * boxes[i].height

\* C16: from initial free regions of positive width and height, every
\* free region the engine holds after an iteration of place(), and every
\* region it returns, has a positive width and a positive height, whatever
\* the items are: no leftover or piece of zero or negative area is added.
C16_PositiveRegions ==
    PositiveBins =>
        \A j \in DOMAIN bins : bins[j].width > 0 /\ bins[j].height > 0

\* an iteration has placed an item exactly as wide as its region, so that
\* the side leftover has no area, and free regions are left
C16_Witness ==
    /\ PositiveBins
    /\ last.search_result # None
    /\ unwrap(last.box_item).width = unwrap(last.bin_item).width
    /\ unwrap(last.box_item).height < unwrap(last.bin_item).height
    /\ Len(placed) >= 2
    /\ bins # <<>>

\* the rectangle with edges c = (left, right, top, bottom) and container id
\* lies inside an initial region of that id
InsideContainer(c, id) ==
    \E k \in DOMAIN bins0 :
        /\ bins0[k].bucketid = id
        /\ c[1] >= BucketCoords(bins0[k])[1] /\ c[2] <= BucketCoords(bins0[k])[2]
        /\ c[3] >= BucketCoords(bins0[k])[3] /\ c[4] <= BucketCoords(bins0[k])[4]

\* C17: from one initial region of positive size per container id and
\* items of positive size, after every iteration of place() every placed
\* item and every free region lies inside the original rectangle of the
\* container whose id it carries.
C17_InsideContainer ==
    (OnePerContainer /\ PositiveItems) =>
        /\ \A a \in DOMAIN placed :
                InsideContainer(BoxCoords(placed[a]), unwrap(placed[a].bucketid))
        /\ \A j \in DOMAIN bins :
                InsideContainer(BucketCoords(bins[j]), bins[j].bucketid)

\* three items are placed in a container that does not start at the
\* origin, the last iteration has cut regions, and free regions are left
C17_Witness ==
    /\ OnePerContainer /\ PositiveItems
    /\ run = 1
    /\ Len(bins0) = 1
    /\ bins0[1].originx > 0 /\ bins0[1].originy > 0
    /\ Len(placed) >= 3
    /\ last.new_buckets # <<>>
    /\ Len(bins) >= 2

\* the unit cells <<x, y>> of the rectangle with edges c
Cells(c) == (c[1]..(c[2] - 1)) \X (c[3]..(c[4] - 1))

\* the unit cell at <<x, y>> lies in the rectangle with edges c
Covers(c, cell) ==
    /\ c[1] <= cell[1] /\ cell[1] < c[2]
    /\ c[3] <= cell[2] /\ cell[2] < c[4]

\* a placed item of container id lies on the cell
ItemOn(cell, id) ==
    \E a \in DOMAIN placed :
        placed[a].bucketid = Some(id) /\ Covers(BoxCoords(placed[a]), cell)

\* a free region of container id lies on the cell
RegionOn(cell, id) ==
    \E j \in DOMAIN bins :
        bins[j].bucketid = id /\ Covers(BucketCoords(bins[j]), cell)

\* C18: from one initial region of positive size per container id and
\* items of positive size, after every iteration of place() no usable space
\* is lost: every unit cell of a container that no placed item of the
\* container covers is covered by a current free region of the container.
C18_NoSpaceLost ==
    (OnePerContainer /\ PositiveItems) =>
        \A k \in DOMAIN bins0 :
            \A cell \in Cells(BucketCoords(bins0[k])) :
                ItemOn(cell, bins0[k].bucketid) \/ RegionOn(cell, bins0[k].bucketid)

\* three items are placed, the last iteration has cut regions and pruned
\* one, and a cell of the container is still free
C18_Witness ==
    /\ OnePerContainer /\ PositiveItems
    /\ run = 1
    /\ Len(placed) >= 3
    /\ last.new_buckets # <<>>
    /\ Len(bins) < Len(last.filtered_bins)
    /\ \E k \in DOMAIN bins0 :
            \E cell \in Cells(BucketCoords(bins0[k])) : ~ItemOn(cell, bins0[k].bucketid)

====
